---- MODULE Spec2Model ----
(***************************************************************************)
(* auto-update-mmdb (src/main.go): one run of main() as a state machine.   *)
(* The run fetches the release metadata, resolves the .mmdb asset,         *)
(* downloads it, renames it over the live database, extracts the CN        *)
(* networks, writes the two nftables set files and restarts nftables.      *)
(*                                                                         *)
(* Text (CIDR strings, file contents, log lines) is modelled by TLA+       *)
(* strings; addresses and masks by sequences of bytes, as Go's net.IP and  *)
(* net.IPMask are.                                                         *)
(***************************************************************************)
EXTENDS Integers, Sequences, FiniteSets, TLC

(***************************************************************************)
(* Constants of the program (src/main.go:17-24).                           *)
(***************************************************************************)
apiURL   == "https://api.github.com/repos/P3TERX/GeoLite.mmdb/releases/latest"
saveMMDB == "/usr/share/GeoIP/GeoLite2-Country.mmdb"
tmpMMDB  == "/tmp/GeoLite2-Country.mmdb"
outCN4   == "/etc/nftables.d/cn4.nft"
outCN6   == "/etc/nftables.d/cn6.nft"

(***************************************************************************)
(* Strings and bytes.                                                      *)
(***************************************************************************)
Char(s, i) == SubSeq(s, i, i)

DecDigits == <<"0", "1", "2", "3", "4", "5", "6", "7", "8", "9">>
HexDigitsLower == <<"0", "1", "2", "3", "4", "5", "6", "7", "8", "9",
                    "a", "b", "c", "d", "e", "f">>
HexDigitsUpper == <<"0", "1", "2", "3", "4", "5", "6", "7", "8", "9",
                    "A", "B", "C", "D", "E", "F">>

IsDigit(c) == \E d \in 1..10 : DecDigits[d] = c
DigitVal(c) == (CHOOSE d \in 1..10 : DecDigits[d] = c) - 1
IsHex(c) == \E d \in 1..16 : HexDigitsLower[d] = c \/ HexDigitsUpper[d] = c
HexVal(c) ==
  (CHOOSE d \in 1..16 : HexDigitsLower[d] = c \/ HexDigitsUpper[d] = c) - 1

\* strings.IndexByte: the first position of c in s (1-based), 0 when absent.
RECURSIVE IndexFrom(_, _, _)
IndexFrom(s, c, i) ==
  IF i > Len(s) THEN 0
  ELSE IF Char(s, i) = c THEN i
  ELSE IndexFrom(s, c, i + 1)
IndexByte(s, c) == IndexFrom(s, c, 1)

\* strconv-style decimal rendering of a non-negative integer (uitoa).
uitoa(n) == ToString(n)

\* Lower-case hexadecimal without leading zeros (netip appendHex).
RECURSIVE appendHex(_)
appendHex(n) ==
  IF n < 16 THEN HexDigitsLower[n + 1]
  ELSE appendHex(n \div 16) \o HexDigitsLower[(n % 16) + 1]

\* Two lower-case hexadecimal digits of a byte (IPMask.String).
hexByte(b) == HexDigitsLower[(b \div 16) + 1] \o HexDigitsLower[(b % 16) + 1]

\* Bitwise AND of two bytes.
RECURSIVE AndBits(_, _, _)
AndBits(a, b, k) ==
  IF k = 0 THEN 0
  ELSE 2 * AndBits(a \div 2, b \div 2, k - 1) + ((a % 2) * (b % 2))
AndByte(a, b) == AndBits(a, b, 8)

Zeros(n) == [i \in 1..n |-> 0]

(***************************************************************************)
(* Go's net package, as main uses it at src/main.go:144-152: an IP is a    *)
(* sequence of 4 or 16 bytes (<<>> is nil), an IPMask likewise, an IPNet   *)
(* is [IP, Mask].                                                          *)
(***************************************************************************)
nilBytes == <<>>

\* net.IP.To4: the 4-byte form of a 4-byte or IPv4-mapped 16-byte address.
To4(ip) ==
  IF Len(ip) = 4 THEN ip
  ELSE IF /\ Len(ip) = 16
          /\ \A i \in 1..10 : ip[i] = 0
          /\ ip[11] = 255
          /\ ip[12] = 255
       THEN SubSeq(ip, 13, 16)
  ELSE nilBytes

\* The 16-bit group i (0-based) of a 16-byte address.
v6u16(ip, i) == ip[2 * i + 1] * 256 + ip[2 * i + 2]

\* The end (exclusive, 0-based) of the run of zero groups starting at i.
RECURSIVE ZeroRunEnd(_, _)
ZeroRunEnd(ip, j) ==
  IF j < 8 /\ v6u16(ip, j) = 0 THEN ZeroRunEnd(ip, j + 1) ELSE j

\* The first longest run of at least two zero groups, <<255, 255>> if none.
RECURSIVE LongestZeroRun(_, _, _)
LongestZeroRun(ip, i, best) ==
  IF i >= 8 THEN best
  ELSE LET j == ZeroRunEnd(ip, i)
           l == j - i
       IN  IF l >= 2 /\ l > best[2] - best[1]
           THEN LongestZeroRun(ip, i + 1, <<i, j>>)
           ELSE LongestZeroRun(ip, i + 1, best)

RECURSIVE Emit6(_, _, _)
Emit6(ip, i, run) ==
  IF i >= 8 THEN ""
  ELSE IF i = run[1]
       THEN IF run[2] >= 8 THEN "::"
            ELSE "::" \o appendHex(v6u16(ip, run[2])) \o Emit6(ip, run[2] + 1, run)
       ELSE (IF i > 0 THEN ":" ELSE "")
            \o appendHex(v6u16(ip, i)) \o Emit6(ip, i + 1, run)

\* netip.Addr.String of a 16-byte address that is not IPv4-mapped.
String6(ip) == Emit6(ip, 0, LongestZeroRun(ip, 0, <<255, 255>>))

String4(p4) ==
  uitoa(p4[1]) \o "." \o uitoa(p4[2]) \o "." \o uitoa(p4[3]) \o "." \o uitoa(p4[4])

RECURSIVE hexString(_)
hexString(b) == IF b = <<>> THEN "" ELSE hexByte(Head(b)) \o hexString(Tail(b))

\* net.IP.String.
IPString(ip) ==
  IF Len(ip) = 0 THEN "<nil>"
  ELSE IF Len(ip) # 4 /\ Len(ip) # 16 THEN "?" \o hexString(ip)
  ELSE IF Len(To4(ip)) = 4 THEN String4(To4(ip))
  ELSE String6(ip)

\* The byte of a prefix mask that holds n (0..8) leading one bits.
PrefixByte(n) == 255 - ((2 ^ (8 - n)) - 1)

\* net.CIDRMask(ones, bits).
CIDRMask(ones, bits) ==
  IF bits # 32 /\ bits # 128 THEN nilBytes
  ELSE IF ones < 0 \/ ones > bits THEN nilBytes
  ELSE [i \in 1..(bits \div 8) |->
          IF ones >= 8 * i THEN 255
          ELSE IF ones <= 8 * (i - 1) THEN 0
          ELSE PrefixByte(ones - 8 * (i - 1))]

\* The leading one bits of a byte, -1 when the byte is not a prefix of ones.
LeadingOnes(b) ==
  IF \E n \in 0..8 : PrefixByte(n) = b
  THEN CHOOSE n \in 0..8 : PrefixByte(n) = b
  ELSE -1

\* net.simpleMaskLength: the prefix length of a canonical mask, else -1.
RECURSIVE simpleMaskLength(_)
simpleMaskLength(m) ==
  IF m = <<>> THEN 0
  ELSE IF Head(m) = 255
       THEN LET r == simpleMaskLength(Tail(m))
            IN  IF r = -1 THEN -1 ELSE 8 + r
  ELSE IF LeadingOnes(Head(m)) = -1 THEN -1
  ELSE IF \A k \in 1..Len(Tail(m)) : Tail(m)[k] = 0 THEN LeadingOnes(Head(m))
  ELSE -1

\* net.networkNumberAndMask: <<ip, mask>> of equal length, or <<nil, nil>>.
networkNumberAndMask(n) ==
  LET ip == IF To4(n.IP) # nilBytes THEN To4(n.IP) ELSE n.IP
  IN  IF Len(ip) # 4 /\ Len(ip) # 16 THEN <<nilBytes, nilBytes>>
      ELSE IF Len(n.Mask) = 4
           THEN IF Len(ip) # 4 THEN <<nilBytes, nilBytes>> ELSE <<ip, n.Mask>>
      ELSE IF Len(n.Mask) = 16
           THEN IF Len(ip) = 4 THEN <<ip, SubSeq(n.Mask, 13, 16)>>
                ELSE <<ip, n.Mask>>
      ELSE <<nilBytes, nilBytes>>

\* net.IPNet.String (src/main.go:144 and 150-152).
IPNetString(n) ==
  LET nm == networkNumberAndMask(n)
      l  == simpleMaskLength(nm[2])
  IN  IF nm[1] = nilBytes \/ nm[2] = nilBytes THEN "<nil>"
      ELSE IF l = -1 THEN IPString(nm[1]) \o "/" \o hexString(nm[2])
      ELSE IPString(nm[1]) \o "/" \o uitoa(l)

v4InV6Prefix == <<0, 0, 0, 0, 0, 0, 0, 0, 0, 0, 255, 255>>

\* net.IP.Mask.
IPMask(ip, mask) ==
  LET m == IF Len(mask) = 16 /\ Len(ip) = 4
              /\ \A k \in 1..12 : mask[k] = 255
           THEN SubSeq(mask, 13, 16) ELSE mask
      a == IF Len(m) = 4 /\ Len(ip) = 16 /\ SubSeq(ip, 1, 12) = v4InV6Prefix
           THEN SubSeq(ip, 13, 16) ELSE ip
  IN  IF Len(a) # Len(m) THEN nilBytes
      ELSE [k \in 1..Len(a) |-> AndByte(a[k], m[k])]

(***************************************************************************)
(* Parsing: net.ParseCIDR and, under it, netip.ParseAddr.  A parse result  *)
(* is a record with ok = FALSE, or ok = TRUE and the parsed value.         *)
(***************************************************************************)
ParseFail == [ok |-> FALSE]

\* netip.parseIPv4Fields over the whole of s: the loop from position i with
\* the octet value val, pos octets stored in fields, digLen digits read.
RECURSIVE parseIPv4Loop(_, _, _, _, _, _)
parseIPv4Loop(s, i, val, pos, digLen, fields) ==
  IF i > Len(s)
  THEN IF pos < 3 THEN ParseFail
       ELSE [ok |-> TRUE, fields |-> Append(fields, val)]
  ELSE LET c == Char(s, i)
       IN  IF IsDigit(c)
           THEN IF digLen = 1 /\ val = 0 THEN ParseFail
                ELSE IF val * 10 + DigitVal(c) > 255 THEN ParseFail
                ELSE parseIPv4Loop(s, i + 1, val * 10 + DigitVal(c), pos,
                                   digLen + 1, fields)
           ELSE IF c = "."
           THEN IF i = 1 \/ i = Len(s) \/ Char(s, i - 1) = "." THEN ParseFail
                ELSE IF pos = 3 THEN ParseFail
                ELSE parseIPv4Loop(s, i + 1, 0, pos + 1, 0, Append(fields, val))
           ELSE ParseFail
parseIPv4Fields(s) == parseIPv4Loop(s, 1, 0, 0, 0, <<>>)

\* netip.parseIPv4: the address as 16 bytes, of 32 bits.
parseIPv4(s) ==
  LET r == parseIPv4Fields(s)
  IN  IF r.ok THEN [ok |-> TRUE, bits |-> 32, zone |-> "",
                    a16 |-> v4InV6Prefix \o r.fields]
      ELSE ParseFail

\* The hex number at the head of s: <<digits read, value>>, or <<-1, 0>>
\* when the group has more than 4 digits.
RECURSIVE hexGroup(_, _, _)
hexGroup(s, off, acc) ==
  IF off < Len(s) /\ IsHex(Char(s, off + 1))
  THEN IF off > 3 THEN <<-1, 0>>
       ELSE hexGroup(s, off + 1, acc * 16 + HexVal(Char(s, off + 1)))
  ELSE <<off, acc>>

\* The loop of netip.parseIPv6: s is the text left, i the bytes stored in ip,
\* ellipsis the byte position of "::" (-1: none).  Ends with s left over.
RECURSIVE parseIPv6Loop(_, _, _, _)
parseIPv6Loop(s, i, ip, ellipsis) ==
  IF i >= 16 THEN [ok |-> TRUE, s |-> s, i |-> i, ip |-> ip, ellipsis |-> ellipsis]
  ELSE
  LET g   == hexGroup(s, 0, 0)
      off == g[1]
      s2  == SubSeq(s, off + 1, Len(s))
      ip2 == ip \o <<g[2] \div 256, g[2] % 256>>
  IN  IF off <= 0 THEN ParseFail
      ELSE IF off < Len(s) /\ Char(s, off + 1) = "."
      THEN IF ellipsis < 0 /\ i # 12 THEN ParseFail
           ELSE IF i + 4 > 16 THEN ParseFail
           ELSE LET r == parseIPv4Fields(s)
                IN  IF r.ok
                    THEN [ok |-> TRUE, s |-> "", i |-> i + 4,
                          ip |-> ip \o r.fields, ellipsis |-> ellipsis]
                    ELSE ParseFail
      ELSE IF Len(s2) = 0
      THEN [ok |-> TRUE, s |-> s2, i |-> i + 2, ip |-> ip2, ellipsis |-> ellipsis]
      ELSE IF Char(s2, 1) # ":" THEN ParseFail
      ELSE IF Len(s2) = 1 THEN ParseFail
      ELSE IF Char(s2, 2) = ":"
      THEN IF ellipsis >= 0 THEN ParseFail
           ELSE IF Len(s2) = 2
           THEN [ok |-> TRUE, s |-> "", i |-> i + 2, ip |-> ip2, ellipsis |-> i + 2]
           ELSE parseIPv6Loop(SubSeq(s2, 3, Len(s2)), i + 2, ip2, i + 2)
      ELSE parseIPv6Loop(SubSeq(s2, 2, Len(s2)), i + 2, ip2, ellipsis)

\* netip.parseIPv6: the address as 16 bytes, of 128 bits, with its zone.
parseIPv6(in) ==
  LET pct  == IndexByte(in, "%")
      s0   == IF pct # 0 THEN SubSeq(in, 1, pct - 1) ELSE in
      zone == IF pct # 0 THEN SubSeq(in, pct + 1, Len(in)) ELSE ""
      lead == Len(s0) >= 2 /\ Char(s0, 1) = ":" /\ Char(s0, 2) = ":"
      s1   == IF lead THEN SubSeq(s0, 3, Len(s0)) ELSE s0
  IN  IF pct # 0 /\ zone = "" THEN ParseFail
      ELSE IF lead /\ Len(s1) = 0
      THEN [ok |-> TRUE, bits |-> 128, zone |-> zone, a16 |-> Zeros(16)]
      ELSE LET r == parseIPv6Loop(s1, 0, <<>>, IF lead THEN 0 ELSE -1)
           IN  IF ~r.ok THEN ParseFail
               ELSE IF Len(r.s) # 0 THEN ParseFail
               ELSE IF r.i < 16
               THEN IF r.ellipsis < 0 THEN ParseFail
                    ELSE [ok |-> TRUE, bits |-> 128, zone |-> zone,
                          a16 |-> SubSeq(r.ip, 1, r.ellipsis)
                                  \o Zeros(16 - r.i)
                                  \o SubSeq(r.ip, r.ellipsis + 1, r.i)]
               ELSE IF r.ellipsis >= 0 THEN ParseFail
               ELSE [ok |-> TRUE, bits |-> 128, zone |-> zone, a16 |-> r.ip]

\* netip.ParseAddr: the first of '.', ':' and '%' in s decides the parser.
RECURSIVE ParseAddrFrom(_, _)
ParseAddrFrom(s, i) ==
  IF i > Len(s) THEN ParseFail
  ELSE IF Char(s, i) = "." THEN parseIPv4(s)
  ELSE IF Char(s, i) = ":" THEN parseIPv6(s)
  ELSE IF Char(s, i) = "%" THEN ParseFail
  ELSE ParseAddrFrom(s, i + 1)
ParseAddr(s) == ParseAddrFrom(s, 1)

big == 16777215

\* net.dtoi: the decimal number at the head of s, <<n, digits read, ok>>.
RECURSIVE dtoiLoop(_, _, _)
dtoiLoop(s, i, n) ==
  IF i < Len(s) /\ IsDigit(Char(s, i + 1))
  THEN IF n * 10 + DigitVal(Char(s, i + 1)) >= big THEN <<big, i, FALSE>>
       ELSE dtoiLoop(s, i + 1, n * 10 + DigitVal(Char(s, i + 1)))
  ELSE IF i = 0 THEN <<0, 0, FALSE>>
  ELSE <<n, i, TRUE>>
dtoi(s) == dtoiLoop(s, 0, 0)

\* net.ParseCIDR (src/main.go:144): ok and the network [IP, Mask], the
\* address masked to its prefix.
ParseCIDR(s) ==
  LET i == IndexByte(s, "/")
  IN  IF i = 0 THEN ParseFail
      ELSE
      LET addr   == SubSeq(s, 1, i - 1)
          mask   == SubSeq(s, i + 1, Len(s))
          ipAddr == ParseAddr(addr)
          d      == dtoi(mask)
      IN  IF ~ipAddr.ok THEN ParseFail
          ELSE IF ipAddr.zone # "" THEN ParseFail
          ELSE IF ~d[3] \/ d[2] # Len(mask) \/ d[1] < 0 \/ d[1] > ipAddr.bits
          THEN ParseFail
          ELSE LET m == CIDRMask(d[1], ipAddr.bits)
               IN  [ok |-> TRUE,
                    ipNet |-> [IP |-> IPMask(ipAddr.a16, m), Mask |-> m]]

(***************************************************************************)
(* Bounds of the model.                                                    *)
(***************************************************************************)
\* The longest database (entries the iteration yields) drawn from EntryPool.
MaxEntries == 2
\* The longest asset list drawn from AssetPool.
MaxAssets == 2
\* The most Fprintf calls of one run that the file system fails.
MaxWriteFaults == 1
\* The runs of the program one behaviour chains (SpecTwice).
MaxRuns == 2
\* The longest element list handed to writeSetFile on its own (SpecWrite).
MaxItems == 2

(***************************************************************************)
(* The database as the maxminddb reader presents it (src/main.go:124-138). *)
(* A database file holds the data records of an IPv6 search tree: each     *)
(* entry is a node [ip (16 bytes), bit (prefix length)] with its country   *)
(* code, or with a record that does not decode (bad).  The tree's records  *)
(* do not overlap and the iteration yields them in address order.          *)
(***************************************************************************)
G6(a, b, c, d, e, f, g, h) ==
  << a \div 256, a % 256, b \div 256, b % 256, c \div 256, c % 256,
     d \div 256, d % 256, e \div 256, e % 256, f \div 256, f % 256,
     g \div 256, g % 256, h \div 256, h % 256 >>

Entry(ip, bit, iso, bad) == [ip |-> ip, bit |-> bit, iso |-> iso, bad |-> bad]

EntryPool ==
  << Entry(G6(0, 0, 0, 0, 0, 0, 0, 0), 64, "CN", FALSE),           \* ::/64
     Entry(G6(0, 0, 0, 0, 0, 0, 0, 0), 96, "CN", FALSE),           \* 0.0.0.0/0
     Entry(G6(0, 0, 0, 0, 0, 0, 258, 768), 120, "CN", FALSE),      \* 1.2.3.0/24
     Entry(G6(0, 0, 0, 0, 0, 0, 2560, 0), 104, "CN", FALSE),       \* 10.0.0.0/8
     Entry(G6(0, 0, 0, 0, 0, 0, 2560, 0), 104, "cn", FALSE),       \* 10.0.0.0/8
     Entry(G6(0, 0, 0, 0, 0, 0, 49320, 0), 112, "US", FALSE),      \* 192.168.0.0/16
     Entry(G6(0, 0, 0, 0, 0, 65535, 0, 0), 96, "CN", FALSE),       \* ::ffff:0:0/96
     Entry(G6(0, 0, 0, 0, 0, 65535, 258, 768), 120, "CN", FALSE),  \* ::ffff:1.2.3.0/120
     Entry(G6(8193, 3512, 0, 0, 0, 0, 0, 0), 32, "CN", FALSE),     \* 2001:db8::/32
     Entry(G6(8193, 3512, 0, 0, 0, 0, 0, 0), 32, "CN", TRUE),      \* 2001:db8::/32
     Entry(G6(8193, 3512, 0, 0, 0, 0, 0, 1), 128, "CN", FALSE),    \* 2001:db8::1/128
     Entry(G6(9216, 0, 0, 0, 0, 0, 0, 0), 12, "", FALSE),          \* 2400::/12
     Entry(G6(10752, 0, 0, 0, 0, 0, 0, 0), 12, "XCN", FALSE),      \* 2a00::/12
     Entry(G6(11279, 62024, 0, 0, 0, 0, 0, 0), 32, "CN", FALSE) >> \* 2c0f:f248::/32

\* The database of the spec's scenario: (10.0.0.0/8, CN),
\* (192.168.0.0/16, US), (2001:db8::/32, CN).
ScenarioDB == << EntryPool[4], EntryPool[6], EntryPool[9] >>

Min(a, b) == IF a <= b THEN a ELSE b

\* Two tree nodes overlap when they agree on the shorter prefix.
Overlap(a, b) ==
  LET m == CIDRMask(Min(a.bit, b.bit), 128)
  IN  IPMask(a.ip, m) = IPMask(b.ip, m)

\* The entries of the pool picked by the index set S, in address order.
RECURSIVE PickInOrder(_)
PickInOrder(S) ==
  IF S = {} THEN <<>>
  ELSE LET i == CHOOSE k \in S : \A j \in S : k <= j
       IN  <<EntryPool[i]>> \o PickInOrder(S \ {i})

\* The entry sequences of at most n non-overlapping records.
Databases(n) ==
  { PickInOrder(S) :
      S \in { X \in SUBSET (1..Len(EntryPool)) :
                /\ Cardinality(X) <= n
                /\ \A i \in X : \A j \in X :
                     i # j => ~Overlap(EntryPool[i], EntryPool[j]) } }

maxminddb_isInIPv4Subtree(ip) == Len(ip) = 16 /\ \A i \in 1..12 : ip[i] = 0

\* maxminddb Networks.Network under SkipAliasedNetworks: the *net.IPNet of a
\* node; a node of the IPv4 subtree comes back as a 4-byte network.
NetworkOf(node) ==
  IF maxminddb_isInIPv4Subtree(node.ip)
  THEN [IP |-> SubSeq(node.ip, 13, 16), Mask |-> CIDRMask(node.bit - 96, 32)]
  ELSE [IP |-> node.ip, Mask |-> CIDRMask(node.bit, 128)]

(***************************************************************************)
(* Files.  A database file is [kind, entries]: kind "mmdb" is a readable   *)
(* database, "junk" any other content, "cut" a download cut short, "none"  *)
(* no file.  A rule-set file is [exists, data] with its text.              *)
(***************************************************************************)
NoFile == [kind |-> "none", entries |-> <<>>]
EmptyFile == [kind |-> "cut", entries |-> <<>>]
JunkFile == [kind |-> "junk", entries |-> <<>>]
Mmdb(entries) == [kind |-> "mmdb", entries |-> entries]
Absent == [exists |-> FALSE, data |-> ""]
Text(s) == [exists |-> TRUE, data |-> s]

(***************************************************************************)
(* The release metadata (src/main.go:26-34) and filepath.Ext.              *)
(***************************************************************************)
Asset(name, url) == [Name |-> name, BrowserDownloadURL |-> url]

AssetPool ==
  << Asset("GeoLite2-ASN.mmdb", "https://dl/GeoLite2-ASN.mmdb"),
     Asset("GeoLite2-Country.mmdb", "https://dl/GeoLite2-Country.mmdb"),
     Asset("Country.mmdb.sha256", "https://dl/Country.mmdb.sha256"),
     Asset("README", "https://dl/README"),
     Asset("Country.MMDB", "https://dl/Country.MMDB"),
     Asset("v1.mmdb/notes", "https://dl/notes"),
     Asset("City.mmdb", "") >>

RECURSIVE SeqsUpTo(_, _)
SeqsUpTo(S, n) ==
  IF n = 0 THEN { <<>> }
  ELSE LET shorter == SeqsUpTo(S, n - 1)
       IN  shorter \cup { Append(q, x) : q \in shorter, x \in S }

Release(tag, assets) == [TagName |-> tag, Assets |-> assets]

\* filepath.Ext: the suffix from the last dot of the last path element.
RECURSIVE ExtFrom(_, _)
ExtFrom(path, i) ==
  IF i < 1 \/ Char(path, i) = "/" THEN ""
  ELSE IF Char(path, i) = "." THEN SubSeq(path, i, Len(path))
  ELSE ExtFrom(path, i - 1)
filepath_Ext(path) == ExtFrom(path, Len(path))

\* The asset loop, were the name only required to contain ".mmdb".
RECURSIVE FirstContainingMMDB(_)
FirstContainingMMDB(assets) ==
  IF assets = <<>> THEN ""
  ELSE IF \E i \in 1..(Len(Head(assets).Name) - 4) :
            SubSeq(Head(assets).Name, i, i + 4) = ".mmdb"
       THEN Head(assets).BrowserDownloadURL
  ELSE FirstContainingMMDB(Tail(assets))

\* The loop of src/main.go:70-76: the URL of the first asset whose name has
\* the extension ".mmdb", "" when the loop ends without one.
RECURSIVE FirstMMDB(_)
FirstMMDB(assets) ==
  IF assets = <<>> THEN ""
  ELSE IF filepath_Ext(Head(assets).Name) = ".mmdb"
       THEN Head(assets).BrowserDownloadURL
  ELSE FirstMMDB(Tail(assets))

(***************************************************************************)
(* The extraction loop body (src/main.go:137-154) and writeSetFile's text  *)
(* (src/main.go:184-193).                                                  *)
(***************************************************************************)
TargetCode == "CN"

\* The status main accepts (src/main.go:101).
StatusOK == 200

\* The loop body, were the country code compared without regard to case.
LoopBodyAnyCase(e, l4, l6) ==
  IF e.bad THEN <<l4, l6>>
  ELSE IF e.iso \in {"CN", "cn", "Cn", "cN"}
  THEN LET p == ParseCIDR(IPNetString(NetworkOf(e)))
       IN  IF ~p.ok THEN <<l4, l6>>
           ELSE IF To4(p.ipNet.IP) # nilBytes
           THEN <<Append(l4, IPNetString(p.ipNet)), l6>>
           ELSE <<l4, Append(l6, IPNetString(p.ipNet))>>
  ELSE <<l4, l6>>

\* The loop body, were the network's own text appended without re-parsing.
LoopBodyNoReparse(e, l4, l6) ==
  IF e.bad THEN <<l4, l6>>
  ELSE IF e.iso = "CN"
  THEN IF To4(NetworkOf(e).IP) # nilBytes
       THEN <<Append(l4, IPNetString(NetworkOf(e))), l6>>
       ELSE <<l4, Append(l6, IPNetString(NetworkOf(e)))>>
  ELSE <<l4, l6>>

\* The loop body, were a match put at the head of its list.
LoopBodyPrepend(e, l4, l6) ==
  IF e.bad THEN <<l4, l6>>
  ELSE IF e.iso = "CN"
  THEN LET p == ParseCIDR(IPNetString(NetworkOf(e)))
       IN  IF ~p.ok THEN <<l4, l6>>
           ELSE IF To4(p.ipNet.IP) # nilBytes
           THEN << <<IPNetString(p.ipNet)>> \o l4, l6>>
           ELSE <<l4, <<IPNetString(p.ipNet)>> \o l6>>
  ELSE <<l4, l6>>

\* One iteration: the lists <<cnIPv4, cnIPv6>> after the entry e.
LoopBody(e, l4, l6) ==
  IF e.bad THEN <<l4, l6>>
  ELSE IF e.iso = TargetCode
  THEN LET p == ParseCIDR(IPNetString(NetworkOf(e)))
       IN  IF ~p.ok THEN <<l4, l6>>
           ELSE IF To4(p.ipNet.IP) # nilBytes
           THEN <<Append(l4, IPNetString(p.ipNet)), l6>>
           ELSE <<l4, Append(l6, IPNetString(p.ipNet))>>
  ELSE <<l4, l6>>

\* The frame of a call of writeSetFile: its arguments, k, the Fprintf call it
\* is about to make (1..NumPrints), and ret, where the caller goes on.
Frame(path, setName, addrType, items, ret) ==
  [path |-> path, setName |-> setName, addrType |-> addrType,
   items |-> items, k |-> 1, ret |-> ret]
NoCall ==
  [path |-> "", setName |-> "", addrType |-> "", items |-> <<>>, k |-> 0,
   ret |-> ""]

NumPrints(fr) == Len(fr.items) + 5

\* The k-th Fprintf, were the last element written without its comma.
FprintfTextNoLastComma(fr, k) ==
  IF k = 1 THEN "set " \o fr.setName \o " {\n"
  ELSE IF k = 2 THEN "    type " \o fr.addrType \o "\n"
  ELSE IF k = 3 THEN "    flags interval\n"
  ELSE IF k = 4 THEN "    elements = {\n"
  ELSE IF k < Len(fr.items) + 4 THEN "        " \o fr.items[k - 4] \o ",\n"
  ELSE IF k = Len(fr.items) + 4 THEN "        " \o fr.items[k - 4] \o "\n"
  ELSE "    }\n}\n"

\* The text of the k-th Fprintf of writeSetFile.
FprintfText(fr, k) ==
  IF k = 1 THEN "set " \o fr.setName \o " {\n"
  ELSE IF k = 2 THEN "    type " \o fr.addrType \o "\n"
  ELSE IF k = 3 THEN "    flags interval\n"
  ELSE IF k = 4 THEN "    elements = {\n"
  ELSE IF k <= Len(fr.items) + 4 THEN "        " \o fr.items[k - 4] \o ",\n"
  ELSE "    }\n}\n"

\* What a failed write may leave in the file: nothing, or part of the text.
ShortWrites(text) == { "", SubSeq(text, 1, Len(text) \div 2) }

\* A create that opens an existing file without truncating it.
os_CreateKeep(old) == IF old.exists THEN old ELSE Text("")

\* os.Create on an existing or new file: the file, empty.
os_Create(old) == Text("")

\* A rename that falls back to copying and fails after the copy.
os_RenameByCopy(ok, src, dst) ==
  IF ok THEN [src |-> NoFile, dst |-> src] ELSE [src |-> src, dst |-> src]

\* os.Rename(src, dst): the two files afterwards; a failed rename changes
\* neither.
os_Rename(ok, src, dst) ==
  IF ok THEN [src |-> NoFile, dst |-> src] ELSE [src |-> src, dst |-> dst]

(***************************************************************************)
(* State.                                                                  *)
(***************************************************************************)
VARIABLES
  pc,          \* the position of main (and of writeSetFile) in the code
  err,         \* the err the last call returned ("" is nil)
  exitCode,    \* -1 while running, then the exit status
  log,         \* the lines written to standard output
  held,        \* the resources acquired and not yet released by the program
  release,     \* the decoded GitHubRelease
  downloadURL,
  status,      \* resp2.StatusCode
  body,        \* the content resp2.Body delivers
  db,          \* the entries of the opened database
  iter,        \* the entry networks.Next() yields next
  cnIPv4,
  cnIPv6,
  w,           \* the frame of the running writeSetFile call
  liveDB,      \* the file at saveMMDB
  tmpFile,     \* the file at tmpMMDB
  nft,         \* the files at outCN4 and outCN6
  remote,      \* what the network serves: the release and the database
  requests,    \* the URLs requested so far
  run,         \* the number of this run of the program
  entered,     \* history: the stages entered in this run, in order
  faulty,      \* history: the stages in which an operation failed
  faults,      \* history: the writes failed so far
  pre,         \* history: the files as they were when the run started
  snap,        \* history: the files as the completed stages left them
  hist         \* history: the outcome of every completed run

prog == <<pc, err, exitCode, release, downloadURL, status, body, db, iter,
          cnIPv4, cnIPv6, w>>
disk == <<liveDB, tmpFile, nft>>
vars == <<prog, log, held, disk, remote, requests, run, entered, faulty,
          faults, pre, snap, hist>>

Paths == {outCN4, outCN6}

Stages == << "FetchMetadata", "ResolveAsset", "Download", "Replace", "Extract",
             "SerializeV4", "SerializeV6", "Reload", "Done" >>

\* The stage of the pipeline a position of the code belongs to.
StageOf(p, fr) ==
  IF p \in {"after_get_meta", "after_decode"} THEN "FetchMetadata"
  ELSE IF p = "after_resolve" THEN "ResolveAsset"
  ELSE IF p \in {"after_create", "after_get_db", "after_copy"} THEN "Download"
  ELSE IF p = "after_rename" THEN "Replace"
  ELSE IF p \in {"after_open", "loop", "call_ws4"} THEN "Extract"
  ELSE IF p = "after_ws_create" /\ fr.path = outCN4 THEN "SerializeV4"
  ELSE IF p = "call_ws6" THEN "SerializeV4"
  ELSE IF p = "after_ws_create" /\ fr.path = outCN6 THEN "SerializeV6"
  ELSE IF p = "call_reload" THEN "SerializeV6"
  ELSE IF p = "after_reload" THEN "Reload"
  ELSE "none"

Info(msg) == [level |-> "INFO", msg |-> msg]
Error(msg) == [level |-> "ERROR", msg |-> msg]

NoSnap == [liveDB |-> NoFile, cn4 |-> Absent, cn6 |-> Absent]

DiskNow == [liveDB |-> liveDB, tmpFile |-> tmpFile, nft |-> nft]

(***************************************************************************)
(* Initial states: the files a run may find and what the network serves.   *)
(***************************************************************************)
OldDB == Mmdb(<< EntryPool[3], EntryPool[6] >>)

FreshDisk ==
  [liveDB |-> NoFile, tmpFile |-> NoFile, nft |-> [p \in Paths |-> Absent]]

\* The files an earlier, complete run over OldDB left.
UsedDisk ==
  [liveDB  |-> OldDB,
   tmpFile |-> NoFile,
   nft     |-> [p \in Paths |->
                  IF p = outCN4
                  THEN Text("set cn4 {\n    type ipv4_addr\n    flags interval\n    elements = {\n        1.2.3.0/24,\n    }\n}\n")
                  ELSE Text("set cn6 {\n    type ipv6_addr\n    flags interval\n    elements = {\n    }\n}\n")]]

\* The files an earlier run that stopped half-way left.
DirtyDisk ==
  [liveDB  |-> OldDB,
   tmpFile |-> EmptyFile,
   nft     |-> [p \in Paths |->
                  IF p = outCN4
                  THEN Text("set cn4 {\n    type ipv4_addr\n    flags interval\n    elements = {\n        1.2.3.0/24,\n        9.9.9.0/24,\n")
                  ELSE Absent]]

Disks == {FreshDisk, UsedDisk, DirtyDisk}

NoRelease == Release("", <<>>)

\* The state before a run's first step, but for pc and w.
InitRest(remotes, disks) ==
  /\ remote \in remotes
  /\ \E d \in disks :
       /\ liveDB = d.liveDB
       /\ tmpFile = d.tmpFile
       /\ nft = d.nft
       /\ pre = d
  /\ err = ""
  /\ exitCode = -1
  /\ log = <<>>
  /\ held = {}
  /\ release = NoRelease
  /\ downloadURL = ""
  /\ status = 0
  /\ body = NoFile
  /\ db = <<>>
  /\ iter = 0
  /\ cnIPv4 = <<>>
  /\ cnIPv6 = <<>>
  /\ requests = <<>>
  /\ run = 1
  /\ entered = <<>>
  /\ faulty = {}
  /\ faults = 0
  /\ snap = NoSnap
  /\ hist = <<>>

InitWith(remotes, disks) ==
  /\ InitRest(remotes, disks)
  /\ pc = "start"
  /\ w = NoCall

(***************************************************************************)
(* Steps of main.  A call and the check of what it returned are two steps: *)
(* the call leaves its error in err, and the check either ends the run     *)
(* (ExitOnErr) or lets the next call go ahead.                             *)
(***************************************************************************)
\* An exit that first removes the rule-set files the run has written.
FatalCleanup(msg) ==
  /\ log' = Append(log, Error(msg))
  /\ exitCode' = 1
  /\ pc' = "exited"
  /\ faulty' = faulty \cup {StageOf(pc, w)}
  /\ nft' = [p \in Paths |-> IF p = outCN4 /\ snap.cn4.exists THEN Absent
                             ELSE IF p = outCN6 /\ snap.cn6.exists THEN Absent
                             ELSE nft[p]]
  /\ UNCHANGED <<err, release, downloadURL, status, body, db, iter, cnIPv4,
                 cnIPv6, w>>
  /\ UNCHANGED <<held, liveDB, tmpFile, remote, requests, run, entered,
                 faults, pre, snap, hist>>

\* An exit with status 1 that reports nothing.
FatalQuiet(msg) ==
  /\ exitCode' = 1
  /\ pc' = "exited"
  /\ faulty' = faulty \cup {StageOf(pc, w)}
  /\ UNCHANGED <<err, release, downloadURL, status, body, db, iter, cnIPv4,
                 cnIPv6, w>>
  /\ UNCHANGED <<log, held, disk, remote, requests, run, entered, faults, pre,
                 snap, hist>>

\* logErr(...); os.Exit(1): the process ends at once; deferred calls do not
\* run and nothing on disk is touched.
Fatal(msg) ==
  /\ log' = Append(log, Error(msg))
  /\ exitCode' = 1
  /\ pc' = "exited"
  /\ faulty' = faulty \cup {StageOf(pc, w)}
  /\ UNCHANGED <<err, release, downloadURL, status, body, db, iter, cnIPv4,
                 cnIPv6, w>>
  /\ UNCHANGED <<held, disk, remote, requests, run, entered, faults, pre,
                 snap, hist>>

\* The positions after which main (or writeSetFile) checks err != nil.
ErrChecked == {"after_get_meta", "after_decode", "after_create",
               "after_get_db", "after_copy", "after_rename", "after_open",
               "after_ws_create"}

\* if err != nil { logErr(err); os.Exit(1) }
ExitOnErr ==
  /\ pc \in ErrChecked
  /\ err # ""
  /\ Fatal(err)

\* src/main.go:51-54, http.Get(apiURL) returns a response.
HttpGetMetaOk ==
  /\ pc = "start"
  /\ log' = Append(log, Info("Fetching latest GitHub release metadata..."))
  /\ requests' = Append(requests, apiURL)
  /\ held' = held \cup {"resp.Body"}
  /\ err' = ""
  /\ pc' = "after_get_meta"
  /\ entered' = Append(entered, "FetchMetadata")
  /\ UNCHANGED <<exitCode, release, downloadURL, status, body, db, iter,
                 cnIPv4, cnIPv6, w>>
  /\ UNCHANGED <<disk, remote, run, faulty, faults, pre, snap, hist>>

\* src/main.go:51-54, http.Get(apiURL) returns an error.
HttpGetMetaErr ==
  /\ pc = "start"
  /\ log' = Append(log, Info("Fetching latest GitHub release metadata..."))
  /\ requests' = Append(requests, apiURL)
  /\ err' = "Get: connection refused"
  /\ pc' = "after_get_meta"
  /\ entered' = Append(entered, "FetchMetadata")
  /\ UNCHANGED <<exitCode, release, downloadURL, status, body, db, iter,
                 cnIPv4, cnIPv6, w>>
  /\ UNCHANGED <<held, disk, remote, run, faulty, faults, pre, snap, hist>>

\* src/main.go:61-62, the body decodes into release.
DecodeOk ==
  /\ pc = "after_get_meta"
  /\ err = ""
  /\ release' = remote.release
  /\ err' = ""
  /\ pc' = "after_decode"
  /\ UNCHANGED <<exitCode, downloadURL, status, body, db, iter, cnIPv4,
                 cnIPv6, w>>
  /\ UNCHANGED <<log, held, disk, remote, requests, run, entered, faulty,
                 faults, pre, snap, hist>>

\* src/main.go:61-62, the body does not decode (or cannot be read).
DecodeErr ==
  /\ pc = "after_get_meta"
  /\ err = ""
  /\ err' = "invalid character '<' looking for beginning of value"
  /\ pc' = "after_decode"
  /\ UNCHANGED <<exitCode, release, downloadURL, status, body, db, iter,
                 cnIPv4, cnIPv6, w>>
  /\ UNCHANGED <<log, held, disk, remote, requests, run, entered, faulty,
                 faults, pre, snap, hist>>

\* src/main.go:67-76: the tag is logged and the asset loop sets downloadURL.
ResolveAsset ==
  /\ pc = "after_decode"
  /\ err = ""
  /\ log' = Append(log, Info("Latest tag: " \o release.TagName))
  /\ downloadURL' = FirstMMDB(release.Assets)
  /\ pc' = "after_resolve"
  /\ entered' = Append(entered, "ResolveAsset")
  /\ UNCHANGED <<err, exitCode, release, status, body, db, iter, cnIPv4,
                 cnIPv6, w>>
  /\ UNCHANGED <<held, disk, remote, requests, run, faulty, faults, pre,
                 snap, hist>>

\* src/main.go:77-80.
ResolveFail ==
  /\ pc = "after_resolve"
  /\ downloadURL = ""
  /\ Fatal("no mmdb file found in release")

\* What the network serves.
Remote(rel, file) == [release |-> rel, body |-> file]

GoodRelease == Release("2026.11.01", << AssetPool[3], AssetPool[2] >>)

SmallRemotes ==
  { Remote(rel, file) :
      rel \in { GoodRelease, Release("", <<>>), Release("v0", << AssetPool[4] >>) },
      file \in { Mmdb(ScenarioDB), Mmdb(<< EntryPool[3], EntryPool[8] >>),
                 Mmdb(<<>>), JunkFile } }

TwiceRemotes ==
  { Remote(GoodRelease, Mmdb(d)) :
      d \in { ScenarioDB, << EntryPool[3] >>, << EntryPool[9] >>, <<>> } }

\* src/main.go:82-87, os.Create(tmpMMDB) creates or truncates the file.
CreateTmpOk ==
  /\ pc = "after_resolve"
  /\ downloadURL # ""
  /\ log' = Append(Append(log, Info("MMDB download URL: " \o downloadURL)),
              Info("Downloading MMDB..."))
  /\ tmpFile' = EmptyFile
  /\ held' = held \cup {"out"}
  /\ err' = ""
  /\ pc' = "after_create"
  /\ entered' = Append(entered, "Download")
  /\ UNCHANGED <<exitCode, release, downloadURL, status, body, db, iter>>
  /\ UNCHANGED <<cnIPv4, cnIPv6, w, liveDB, nft, remote, requests, run>>
  /\ UNCHANGED <<faulty, faults, pre, snap, hist>>

\* src/main.go:82-87, os.Create(tmpMMDB) fails.
CreateTmpErr ==
  /\ pc = "after_resolve"
  /\ downloadURL # ""
  /\ log' = Append(Append(log, Info("MMDB download URL: " \o downloadURL)),
              Info("Downloading MMDB..."))
  /\ err' = "open " \o tmpMMDB \o ": permission denied"
  /\ pc' = "after_create"
  /\ entered' = Append(entered, "Download")
  /\ UNCHANGED <<exitCode, held, release, downloadURL, status, body, db>>
  /\ UNCHANGED <<iter, cnIPv4, cnIPv6, w, liveDB, tmpFile, nft, remote>>
  /\ UNCHANGED <<requests, run, faulty, faults, pre, snap, hist>>

\* src/main.go:94, http.Get(downloadURL) answers 200 with the database.
HttpGetDB200 ==
  /\ pc = "after_create"
  /\ err = ""
  /\ requests' = Append(requests, downloadURL)
  /\ status' = StatusOK
  /\ body' = remote.body
  /\ held' = held \cup {"resp2.Body"}
  /\ err' = ""
  /\ pc' = "after_get_db"
  /\ UNCHANGED <<exitCode, log, release, downloadURL, db, iter, cnIPv4>>
  /\ UNCHANGED <<cnIPv6, w, liveDB, tmpFile, nft, remote, run, entered>>
  /\ UNCHANGED <<faulty, faults, pre, snap, hist>>

\* src/main.go:94, http.Get(downloadURL) answers with another status.
HttpGetDBNon200 ==
  /\ pc = "after_create"
  /\ err = ""
  /\ requests' = Append(requests, downloadURL)
  /\ status' = 404
  /\ body' = JunkFile
  /\ held' = held \cup {"resp2.Body"}
  /\ err' = ""
  /\ pc' = "after_get_db"
  /\ UNCHANGED <<exitCode, log, release, downloadURL, db, iter, cnIPv4>>
  /\ UNCHANGED <<cnIPv6, w, liveDB, tmpFile, nft, remote, run, entered>>
  /\ UNCHANGED <<faulty, faults, pre, snap, hist>>

\* src/main.go:94, http.Get(downloadURL) returns an error.
HttpGetDBErr ==
  /\ pc = "after_create"
  /\ err = ""
  /\ requests' = Append(requests, downloadURL)
  /\ err' = "Get: connection reset"
  /\ pc' = "after_get_db"
  /\ UNCHANGED <<exitCode, log, held, release, downloadURL, status, body>>
  /\ UNCHANGED <<db, iter, cnIPv4, cnIPv6, w, liveDB, tmpFile, nft, remote>>
  /\ UNCHANGED <<run, entered, faulty, faults, pre, snap, hist>>

\* src/main.go:101-104.
StatusFail ==
  /\ pc = "after_get_db"
  /\ err = ""
  /\ status # StatusOK
  /\ Fatal("download failed: " \o uitoa(status))

\* src/main.go:106, io.Copy copies the whole body into the temporary file.
CopyOk ==
  /\ pc = "after_get_db"
  /\ err = ""
  /\ status = StatusOK
  /\ tmpFile' = body
  /\ err' = ""
  /\ pc' = "after_copy"
  /\ UNCHANGED <<exitCode, log, held, release, downloadURL, status, body>>
  /\ UNCHANGED <<db, iter, cnIPv4, cnIPv6, w, liveDB, nft, remote, requests>>
  /\ UNCHANGED <<run, entered, faulty, faults, pre, snap, hist>>

\* src/main.go:106, io.Copy fails part-way: the temporary file is cut short.
CopyErr ==
  /\ pc = "after_get_db"
  /\ err = ""
  /\ status = StatusOK
  /\ tmpFile' = EmptyFile
  /\ err' = "unexpected EOF"
  /\ pc' = "after_copy"
  /\ UNCHANGED <<exitCode, log, held, release, downloadURL, status, body>>
  /\ UNCHANGED <<db, iter, cnIPv4, cnIPv6, w, liveDB, nft, remote, requests>>
  /\ UNCHANGED <<run, entered, faulty, faults, pre, snap, hist>>

\* src/main.go:112-116, os.Rename(tmpMMDB, saveMMDB) succeeds.
RenameOk ==
  /\ pc = "after_copy"
  /\ err = ""
  /\ log' = Append(Append(log, Info("Download complete.")),
              Info("Replacing old MMDB..."))
  /\ liveDB' = os_Rename(TRUE, tmpFile, liveDB).dst
  /\ tmpFile' = os_Rename(TRUE, tmpFile, liveDB).src
  /\ snap' = [snap EXCEPT !.liveDB = os_Rename(TRUE, tmpFile, liveDB).dst]
  /\ err' = ""
  /\ pc' = "after_rename"
  /\ entered' = Append(entered, "Replace")
  /\ UNCHANGED <<exitCode, held, release, downloadURL, status, body, db>>
  /\ UNCHANGED <<iter, cnIPv4, cnIPv6, w, nft, remote, requests, run>>
  /\ UNCHANGED <<faulty, faults, pre, hist>>

\* src/main.go:112-116, os.Rename(tmpMMDB, saveMMDB) fails.
RenameErr ==
  /\ pc = "after_copy"
  /\ err = ""
  /\ log' = Append(Append(log, Info("Download complete.")),
              Info("Replacing old MMDB..."))
  /\ liveDB' = os_Rename(FALSE, tmpFile, liveDB).dst
  /\ tmpFile' = os_Rename(FALSE, tmpFile, liveDB).src
  /\ err' = "rename " \o tmpMMDB \o " " \o saveMMDB \o ": invalid cross-device link"
  /\ pc' = "after_rename"
  /\ entered' = Append(entered, "Replace")
  /\ UNCHANGED <<exitCode, held, release, downloadURL, status, body, db>>
  /\ UNCHANGED <<iter, cnIPv4, cnIPv6, w, nft, remote, requests, run>>
  /\ UNCHANGED <<faulty, faults, pre, snap, hist>>

\* src/main.go:122-132, maxminddb.Open(saveMMDB) opens a readable database.
OpenDBOk ==
  /\ pc = "after_rename"
  /\ err = ""
  /\ liveDB.kind = "mmdb"
  /\ log' = Append(log, Info("Parsing MMDB and generating nftables sets..."))
  /\ db' = liveDB.entries
  /\ held' = held \cup {"db"}
  /\ cnIPv4' = <<>>
  /\ cnIPv6' = <<>>
  /\ iter' = 1
  /\ err' = ""
  /\ pc' = "after_open"
  /\ entered' = Append(entered, "Extract")
  /\ UNCHANGED <<exitCode, release, downloadURL, status, body, w, liveDB>>
  /\ UNCHANGED <<tmpFile, nft, remote, requests, run, faulty, faults, pre>>
  /\ UNCHANGED <<snap, hist>>

\* src/main.go:122-124, maxminddb.Open(saveMMDB) fails (always so on a file
\* that is no database).
OpenDBErr ==
  /\ pc = "after_rename"
  /\ err = ""
  /\ log' = Append(log, Info("Parsing MMDB and generating nftables sets..."))
  /\ err' = "error opening database: invalid MaxMind DB file"
  /\ pc' = "after_open"
  /\ entered' = Append(entered, "Extract")
  /\ UNCHANGED <<exitCode, held, release, downloadURL, status, body, db>>
  /\ UNCHANGED <<iter, cnIPv4, cnIPv6, w, liveDB, tmpFile, nft, remote>>
  /\ UNCHANGED <<requests, run, faulty, faults, pre, snap, hist>>

\* src/main.go:136, networks.Next() is true: the loop is about to take the
\* entry db[iter].
AtEntry == pc \in {"after_open", "loop"} /\ err = "" /\ iter <= Len(db)

\* One iteration, were an entry that fails to decode or to re-parse to end
\* the loop (break in place of continue).
NetworksNextBreak ==
  /\ pc \in {"after_open", "loop"}
  /\ err = ""
  /\ iter <= Len(db)
  /\ cnIPv4' = LoopBody(db[iter], cnIPv4, cnIPv6)[1]
  /\ cnIPv6' = LoopBody(db[iter], cnIPv4, cnIPv6)[2]
  /\ IF db[iter].bad
        \/ (db[iter].iso = "CN" /\ ~ParseCIDR(IPNetString(NetworkOf(db[iter]))).ok)
     THEN iter' = iter /\ pc' = "call_ws4"
     ELSE iter' = iter + 1 /\ pc' = "loop"
  /\ UNCHANGED <<err, exitCode, log, held, release, downloadURL, status>>
  /\ UNCHANGED <<body, db, w, liveDB, tmpFile, nft, remote, requests, run>>
  /\ UNCHANGED <<entered, faulty, faults, pre, snap, hist>>

\* src/main.go:136-155, one iteration of the loop over db.Networks.
NetworksNext ==
  /\ pc \in {"after_open", "loop"}
  /\ err = ""
  /\ iter <= Len(db)
  /\ cnIPv4' = LoopBody(db[iter], cnIPv4, cnIPv6)[1]
  /\ cnIPv6' = LoopBody(db[iter], cnIPv4, cnIPv6)[2]
  /\ iter' = iter + 1
  /\ pc' = "loop"
  /\ UNCHANGED <<err, exitCode, log, held, release, downloadURL, status>>
  /\ UNCHANGED <<body, db, w, liveDB, tmpFile, nft, remote, requests, run>>
  /\ UNCHANGED <<entered, faulty, faults, pre, snap, hist>>

\* The end of the loop, were it taken one entry past the last.
NetworksEndLate ==
  /\ pc \in {"after_open", "loop"}
  /\ err = ""
  /\ iter > Len(db) + 1
  /\ pc' = "call_ws4"
  /\ UNCHANGED <<err, exitCode, log, held, release, downloadURL, status>>
  /\ UNCHANGED <<body, db, iter, cnIPv4, cnIPv6, w, liveDB, tmpFile, nft>>
  /\ UNCHANGED <<remote, requests, run, entered, faulty, faults, pre, snap>>
  /\ UNCHANGED <<hist>>

\* src/main.go:136, networks.Next() returns false: the loop ends.
NetworksEnd ==
  /\ pc \in {"after_open", "loop"}
  /\ err = ""
  /\ iter > Len(db)
  /\ pc' = "call_ws4"
  /\ UNCHANGED <<err, exitCode, log, held, release, downloadURL, status>>
  /\ UNCHANGED <<body, db, iter, cnIPv4, cnIPv6, w, liveDB, tmpFile, nft>>
  /\ UNCHANGED <<remote, requests, run, entered, faulty, faults, pre, snap>>
  /\ UNCHANGED <<hist>>

\* The arguments of the two calls, were the IPv6 file written first.
CallFrameV6First(p) ==
  IF p = "call_ws4" THEN Frame(outCN6, "cn6", "ipv6_addr", cnIPv6, "call_ws6")
  ELSE IF p = "call_ws6"
       THEN Frame(outCN4, "cn4", "ipv4_addr", cnIPv4, "call_reload")
  ELSE w

\* The arguments of the call of writeSetFile at src/main.go:158 or 159; the
\* frame of a call made with other arguments is already in w.
CallFrame(p) ==
  IF p = "call_ws4" THEN Frame(outCN4, "cn4", "ipv4_addr", cnIPv4, "call_ws6")
  ELSE IF p = "call_ws6"
       THEN Frame(outCN6, "cn6", "ipv6_addr", cnIPv6, "call_reload")
  ELSE w

CallSites == {"call_ws4", "call_ws6", "call_ws"}

\* src/main.go:176-177, os.Create(path) creates or truncates the file.
WsCreateOk ==
  /\ pc \in CallSites
  /\ w' = CallFrame(pc)
  /\ nft' = [nft EXCEPT ![CallFrame(pc).path] = os_Create(@)]
  /\ held' = held \cup {"f"}
  /\ err' = ""
  /\ pc' = "after_ws_create"
  /\ entered' = Append(entered, StageOf("after_ws_create", CallFrame(pc)))
  /\ UNCHANGED <<exitCode, log, release, downloadURL, status, body, db>>
  /\ UNCHANGED <<iter, cnIPv4, cnIPv6, liveDB, tmpFile, remote, requests>>
  /\ UNCHANGED <<run, faulty, faults, pre, snap, hist>>

\* src/main.go:176-177, os.Create(path) fails.
WsCreateErr ==
  /\ pc \in CallSites
  /\ w' = CallFrame(pc)
  /\ err' = "open " \o CallFrame(pc).path \o ": no such file or directory"
  /\ pc' = "after_ws_create"
  /\ entered' = Append(entered, StageOf("after_ws_create", CallFrame(pc)))
  /\ UNCHANGED <<exitCode, log, held, release, downloadURL, status, body>>
  /\ UNCHANGED <<db, iter, cnIPv4, cnIPv6, liveDB, tmpFile, nft, remote>>
  /\ UNCHANGED <<requests, run, faulty, faults, pre, snap, hist>>

\* src/main.go:184-193, the next Fprintf writes its text to the file.
WsFprintf ==
  /\ pc = "after_ws_create"
  /\ err = ""
  /\ w.k <= NumPrints(w)
  /\ nft' = [nft EXCEPT ![w.path] = Text(@.data \o FprintfText(w, w.k))]
  /\ w' = [w EXCEPT !.k = @ + 1]
  /\ UNCHANGED <<pc, err, exitCode, log, held, release, downloadURL, status>>
  /\ UNCHANGED <<body, db, iter, cnIPv4, cnIPv6, liveDB, tmpFile, remote>>
  /\ UNCHANGED <<requests, run, entered, faulty, faults, pre, snap, hist>>

\* src/main.go:184-193, the next Fprintf fails: it writes part of its text
\* or nothing, and writeSetFile discards the error it returns.
WsFprintfFault ==
  /\ pc = "after_ws_create"
  /\ err = ""
  /\ w.k <= NumPrints(w)
  /\ faults < MaxWriteFaults
  /\ \E part \in ShortWrites(FprintfText(w, w.k)) :
       nft' = [nft EXCEPT ![w.path] = Text(@.data \o part)]
  /\ w' = [w EXCEPT !.k = @ + 1]
  /\ faults' = faults + 1
  /\ faulty' = faulty \cup {StageOf(pc, w)}
  /\ UNCHANGED <<pc, err, exitCode, log, held, release, downloadURL, status>>
  /\ UNCHANGED <<body, db, iter, cnIPv4, cnIPv6, liveDB, tmpFile, remote>>
  /\ UNCHANGED <<requests, run, entered, pre, snap, hist>>

\* src/main.go:182 and 194, writeSetFile returns: the deferred f.Close() runs.
WsReturn ==
  /\ pc = "after_ws_create"
  /\ err = ""
  /\ w.k > NumPrints(w)
  /\ held' = held \ {"f"}
  /\ snap' = IF w.path = outCN4 THEN [snap EXCEPT !.cn4 = nft[w.path]]
       ELSE [snap EXCEPT !.cn6 = nft[w.path]]
  /\ pc' = w.ret
  /\ w' = NoCall
  /\ UNCHANGED <<err, exitCode, log, release, downloadURL, status, body, db>>
  /\ UNCHANGED <<iter, cnIPv4, cnIPv6, liveDB, tmpFile, nft, remote>>
  /\ UNCHANGED <<requests, run, entered, faulty, faults, pre, hist>>

\* src/main.go:161-168, systemctl restart nftables succeeds.
ReloadOk ==
  /\ pc = "call_reload"
  /\ log' = log \o << Info("Generated:"),
                 Info("- " \o outCN4 \o " (" \o uitoa(Len(cnIPv4)) \o " IPv4 ranges)"),
                 Info("- " \o outCN6 \o " (" \o uitoa(Len(cnIPv6)) \o " IPv6 ranges)"),
                 Info("Reloading nftables...") >>
  /\ err' = ""
  /\ pc' = "after_reload"
  /\ entered' = Append(entered, "Reload")
  /\ UNCHANGED <<exitCode, held, release, downloadURL, status, body, db>>
  /\ UNCHANGED <<iter, cnIPv4, cnIPv6, w, liveDB, tmpFile, nft, remote>>
  /\ UNCHANGED <<requests, run, faulty, faults, pre, snap, hist>>

\* src/main.go:161-168, systemctl restart nftables fails.
ReloadErr ==
  /\ pc = "call_reload"
  /\ log' = log \o << Info("Generated:"),
                 Info("- " \o outCN4 \o " (" \o uitoa(Len(cnIPv4)) \o " IPv4 ranges)"),
                 Info("- " \o outCN6 \o " (" \o uitoa(Len(cnIPv6)) \o " IPv6 ranges)"),
                 Info("Reloading nftables...") >>
  /\ err' = "exit status 1"
  /\ pc' = "after_reload"
  /\ entered' = Append(entered, "Reload")
  /\ UNCHANGED <<exitCode, held, release, downloadURL, status, body, db>>
  /\ UNCHANGED <<iter, cnIPv4, cnIPv6, w, liveDB, tmpFile, nft, remote>>
  /\ UNCHANGED <<requests, run, faulty, faults, pre, snap, hist>>

\* src/main.go:168-171.
ReloadFail ==
  /\ pc = "after_reload"
  /\ err # ""
  /\ Fatal("systemctl output: Job for nftables.service failed.")

\* src/main.go:173-174: main returns, its deferred Close calls run, exit 0.
Finish ==
  /\ pc = "after_reload"
  /\ err = ""
  /\ log' = Append(log, Info("Done."))
  /\ held' = {}
  /\ exitCode' = 0
  /\ pc' = "exited"
  /\ entered' = Append(entered, "Done")
  /\ hist' = Append(hist, [db |-> liveDB, cn4 |-> nft[outCN4],
                          cn6 |-> nft[outCN6], before |-> pre.nft])
  /\ UNCHANGED <<err, release, downloadURL, status, body, db, iter, cnIPv4>>
  /\ UNCHANGED <<cnIPv6, w, liveDB, tmpFile, nft, remote, requests, run>>
  /\ UNCHANGED <<faulty, faults, pre, snap>>

\* The program is started again (by its timer) after a run has ended: the
\* files stay as the run left them, the network may serve another database.
Rerun ==
  /\ pc = "exited"
  /\ run < MaxRuns
  /\ run' = run + 1
  /\ remote' \in TwiceRemotes
  /\ pre' = DiskNow
  /\ pc' = "start"
  /\ err' = ""
  /\ exitCode' = -1
  /\ log' = <<>>
  /\ held' = {}
  /\ release' = NoRelease
  /\ downloadURL' = ""
  /\ status' = 0
  /\ body' = NoFile
  /\ db' = <<>>
  /\ iter' = 0
  /\ cnIPv4' = <<>>
  /\ cnIPv6' = <<>>
  /\ w' = NoCall
  /\ requests' = <<>>
  /\ entered' = <<>>
  /\ faulty' = {}
  /\ faults' = 0
  /\ snap' = NoSnap
  /\ UNCHANGED <<disk, hist>>

(***************************************************************************)
(* Specifications.                                                         *)
(***************************************************************************)
\* A run on which every call succeeds.
RunOk ==
  \/ HttpGetMetaOk
  \/ DecodeOk
  \/ ResolveAsset
  \/ CreateTmpOk
  \/ HttpGetDB200
  \/ CopyOk
  \/ RenameOk
  \/ OpenDBOk
  \/ NetworksNext
  \/ NetworksEnd
  \/ WsCreateOk
  \/ WsFprintf
  \/ WsReturn
  \/ ReloadOk
  \/ Finish

\* The failures of a run.
RunErr ==
  \/ HttpGetMetaErr
  \/ DecodeErr
  \/ ResolveFail
  \/ CreateTmpErr
  \/ HttpGetDBNon200
  \/ HttpGetDBErr
  \/ StatusFail
  \/ CopyErr
  \/ RenameErr
  \/ OpenDBErr
  \/ WsCreateErr
  \/ WsFprintfFault
  \/ ReloadErr
  \/ ReloadFail
  \/ ExitOnErr

\* One run of the program, with every failure its calls can report.
Init == InitWith(SmallRemotes, Disks)
Next == RunOk \/ RunErr
Spec == Init /\ [][Next]_vars

\* One run on which every call succeeds, over every database of the bound.
ExtractRemotes ==
  { Remote(GoodRelease, Mmdb(d)) : d \in Databases(MaxEntries) \cup {ScenarioDB} }
InitExtract == InitWith(ExtractRemotes, {UsedDisk})
SpecExtract == InitExtract /\ [][RunOk]_vars

\* One run, with its failures, over every asset list of the bound.
ResolveRemotes ==
  { Remote(Release("v1", assets), Mmdb(<< EntryPool[4] >>)) :
      assets \in SeqsUpTo({ AssetPool[i] : i \in 1..Len(AssetPool) }, MaxAssets) }
InitResolve == InitWith(ResolveRemotes, {UsedDisk, DirtyDisk})
SpecResolve == InitResolve /\ [][Next]_vars

\* Runs on which every call succeeds, one after the other on the same disk.
InitTwice == InitWith(TwiceRemotes, Disks)
NextTwice == RunOk \/ Rerun
SpecTwice == InitTwice /\ [][NextTwice]_vars

\* writeSetFile on its own: a call with any name, type and element list of
\* the bound, on a file that may exist already.
WriteFrames ==
  { Frame(path, setName, addrType, items, "exited") :
      path \in Paths,
      setName \in {"cn4", "X"},
      addrType \in {"ipv4_addr", "Y"},
      items \in SeqsUpTo({"1.2.3.0/24", "5.6.7.0/24"}, MaxItems) }
InitWrite ==
  /\ InitRest({Remote(GoodRelease, Mmdb(<<>>))}, Disks)
  /\ pc = "call_ws"
  /\ w \in WriteFrames
NextWrite == WsCreateOk \/ WsFprintf \/ WsReturn
SpecWrite == InitWrite /\ [][NextWrite]_vars

\* One run, with its failures, over every database of the bound that holds
\* an entry the loop has to skip: one whose record does not decode, or one
\* whose network does not re-parse.
SkipRemotes ==
  { Remote(rel, Mmdb(d)) :
      rel \in { GoodRelease, Release("", <<>>) },
      d \in { x \in Databases(MaxEntries) :
                \E i \in 1..Len(x) :
                  \/ x[i].bad
                  \/ ~ParseCIDR(IPNetString(NetworkOf(x[i]))).ok } }
InitSkip == InitWith(SkipRemotes, {UsedDisk})
SpecSkip == InitSkip /\ [][Next]_vars

\* One run, with its failures, in which the program is never held up for
\* good: every call it makes returns, so a step that can be taken is taken
\* in the end.  The program is one sequential process, so this is weak
\* fairness of its steps.  For the loop's step it is stated on what the step
\* does to the iterator: NetworksNext can be taken exactly when AtEntry
\* holds, and it is the only step that moves the iterator on.
LoopAdvance == AtEntry /\ iter' = iter + 1 /\ pc' = "loop"
SpecFair ==
  /\ Init
  /\ [][Next]_vars
  /\ WF_vars(~AtEntry /\ Next)
  /\ WF_<<pc, iter>>(LoopAdvance)

(***************************************************************************)
(* Properties.                                                             *)
(***************************************************************************)
Range(s) == { s[i] : i \in DOMAIN s }

\* The whole text writeSetFile sends to its file.
RECURSIVE TextFrom(_, _)
TextFrom(fr, k) ==
  IF k > NumPrints(fr) THEN "" ELSE FprintfText(fr, k) \o TextFrom(fr, k + 1)
SetFileText(setName, addrType, items) ==
  TextFrom(Frame("", setName, addrType, items, ""), 1)

\* The stages are entered in the pipeline's order, each at most once.
EnteredInOrder ==
  /\ Len(entered) <= Len(Stages)
  /\ \A i \in 1..Len(entered) : entered[i] = Stages[i]

\* C1: the stages FetchMetadata .. Done are entered only in that order, none
\* twice and none after a later one, and a stage is entered only after its
\* predecessor has completed successfully (no operation of it failed).
C1_StagesInOrderAfterSuccess ==
  /\ EnteredInOrder
  /\ \A i \in 1..Len(entered) : \A j \in 1..(i - 1) : entered[j] \notin faulty

\* C2: the exit status is 0 if and only if every stage succeeded: a run in
\* which an operation of some stage failed (a write of a rule-set file's
\* content included) ends with a non-zero status, and no stage after the
\* failing one is entered.
C2_ExitZeroIffEveryStageSucceeded ==
  /\ exitCode = 0 => faulty = {}
  /\ (pc = "exited" /\ faulty = {}) => (exitCode = 0 /\ entered = Stages)
  /\ faulty # {} => entered[Len(entered)] \in faulty

\* The rename has been made and has succeeded.
RenameSucceeded ==
  /\ "Replace" \in Range(entered)
  /\ "Replace" \notin faulty
  /\ ~(pc = "after_rename" /\ err # "")

\* C3: the live database file is changed only by Replace, which runs only
\* after a complete download (a response, status 200, the whole body
\* copied); a run that fails in FetchMetadata, ResolveAsset, Download or in
\* the rename leaves the live database with its pre-run content.
C3_LiveDbChangedOnlyByReplace ==
  /\ ~RenameSucceeded => liveDB = pre.liveDB
  /\ RenameSucceeded => (liveDB = remote.body /\ body = remote.body
                         /\ status = StatusOK)
  /\ (exitCode = 1 /\ faulty \cap {"FetchMetadata", "ResolveAsset", "Download",
                                  "Replace"} # {})
       => liveDB = pre.liveDB

\* C3, witness: the rename failed after a complete download, and the
\* database of the earlier run is still in place.
C3_Witness ==
  /\ exitCode = 1
  /\ "Replace" \in faulty
  /\ tmpFile = remote.body
  /\ remote.body.kind = "mmdb"
  /\ pre.liveDB = OldDB
  /\ liveDB = OldDB

\* C4: the reload is requested only when both rule-set files have been
\* written completely in this run: each exists and holds exactly the text
\* of this run's list.
C4_ReloadOnlyAfterCompleteSets ==
  "Reload" \in Range(entered) =>
    /\ nft[outCN4] = Text(SetFileText("cn4", "ipv4_addr", cnIPv4))
    /\ nft[outCN6] = Text(SetFileText("cn6", "ipv6_addr", cnIPv6))
    /\ {"SerializeV4", "SerializeV6"} \subseteq Range(entered)

\* s is a CIDR of the IPv4 family: dotted address, prefix length 0..32.
IsIPv4CIDR(s) ==
  /\ ParseCIDR(s).ok
  /\ Len(ParseCIDR(s).ipNet.Mask) = 4
  /\ Len(ParseCIDR(s).ipNet.IP) = 4
  /\ IndexByte(s, ":") = 0
  /\ simpleMaskLength(ParseCIDR(s).ipNet.Mask) \in 0..32

\* s is a CIDR of the IPv6 family.
IsIPv6CIDR(s) ==
  /\ ParseCIDR(s).ok
  /\ Len(ParseCIDR(s).ipNet.Mask) = 16
  /\ Len(ParseCIDR(s).ipNet.IP) = 16
  /\ IndexByte(s, ":") # 0
  /\ simpleMaskLength(ParseCIDR(s).ipNet.Mask) \in 0..128

\* C5: at every point of the extraction loop, for every database, every
\* element of the IPv4 list is a valid IPv4 CIDR, every element of the IPv6
\* list a valid IPv6 CIDR, and no network is in both lists; entries with an
\* IPv4-mapped 16-byte base address included.
C5_ListsHoldCIDRsOfTheirFamily ==
  /\ \A i \in 1..Len(cnIPv4) : IsIPv4CIDR(cnIPv4[i])
  /\ \A i \in 1..Len(cnIPv6) : IsIPv6CIDR(cnIPv6[i])
  /\ Range(cnIPv4) \cap Range(cnIPv6) = {}

\* C5, witness: the loop has taken an IPv4-mapped entry and an IPv6 entry.
C5_Witness ==
  /\ pc = "loop"
  /\ iter = 3
  /\ Len(To4(db[1].ip)) = 4
  /\ cnIPv4 = << "1.2.3.0/24" >>
  /\ cnIPv6 = << "2001:db8::/32" >>

\* C6: after extraction a network is in one of the lists only if its
\* entry's country code is exactly "CN"; the scenario database yields
\* IPv4 list [10.0.0.0/8] and IPv6 list [2001:db8::/32].
C6_OnlyExactCodeCN ==
  pc = "call_ws4" =>
    /\ \A s \in Range(cnIPv4) \cup Range(cnIPv6) :
         \E i \in 1..Len(db) :
           /\ db[i].iso = "CN"
           /\ IPNetString(NetworkOf(db[i])) = s
    /\ (\A i \in 1..Len(db) : db[i].iso # "CN") => (cnIPv4 = <<>> /\ cnIPv6 = <<>>)
    /\ db = ScenarioDB =>
         (cnIPv4 = << "10.0.0.0/8" >> /\ cnIPv6 = << "2001:db8::/32" >>)

\* C6, witness: extraction over the scenario database has ended.
C6_Witness ==
  /\ pc = "call_ws4"
  /\ db = ScenarioDB
  /\ cnIPv4 = << "10.0.0.0/8" >>
  /\ cnIPv6 = << "2001:db8::/32" >>

\* The text the spec gives for a set file, line by line.
Line(s) == s \o "\n"
RECURSIVE ElementLines(_)
ElementLines(items) ==
  IF items = <<>> THEN ""
  ELSE Line("        " \o Head(items) \o ",") \o ElementLines(Tail(items))
ExpectedText(setName, addrType, items) ==
  Line("set " \o setName \o " {") \o Line("    type " \o addrType)
  \o Line("    flags interval") \o Line("    elements = {")
  \o ElementLines(items) \o Line("    }") \o Line("}")

\* writeSetFile has made its last Fprintf and is about to return.
AllPrinted == pc = "after_ws_create" /\ err = "" /\ w.k > NumPrints(w)

\* C7: for every set name, address type and element list writeSetFile
\* produces exactly the header lines, one line per element in list order
\* (8 spaces, the element, a comma), and the two closing lines; for the
\* empty list the header lines followed directly by the closing lines.
C7_SetFileTextExact ==
  AllPrinted =>
    /\ nft[w.path] = Text(ExpectedText(w.setName, w.addrType, w.items))
    /\ (w.items = <<>> /\ w.setName = "X" /\ w.addrType = "Y") =>
         nft[w.path].data
           = "set X {\n    type Y\n    flags interval\n    elements = {\n    }\n}\n"
    /\ (w.items = << "1.2.3.0/24", "5.6.7.0/24" >> /\ w.setName = "cn4"
        /\ w.addrType = "ipv4_addr") =>
         nft[w.path].data
           = "set cn4 {\n    type ipv4_addr\n    flags interval\n    elements = {\n        1.2.3.0/24,\n        5.6.7.0/24,\n    }\n}\n"

\* C7, witness: two elements have been written over an existing file.
C7_Witness ==
  /\ AllPrinted
  /\ w.items = << "1.2.3.0/24", "5.6.7.0/24" >>
  /\ w.setName = "cn4"
  /\ pre.nft[w.path].exists
  /\ pre.nft[w.path].data # ""

\* name ends in ".mmdb".
EndsInMMDB(name) ==
  Len(name) >= 5 /\ SubSeq(name, Len(name) - 4, Len(name)) = ".mmdb"

\* C8: when no asset of the release has the extension .mmdb, the run fails
\* in ResolveAsset before any download is attempted: the temporary file is
\* neither created nor truncated, no download request is made, and the live
\* database and the rule-set files are untouched.
C8_NoAssetFailsBeforeDownload ==
  (/\ "ResolveAsset" \in Range(entered)
   /\ \A i \in 1..Len(release.Assets) : ~EndsInMMDB(release.Assets[i].Name))
  => /\ pc \in {"after_resolve", "exited"}
     /\ downloadURL = ""
     /\ pc = "exited" => (exitCode = 1 /\ faulty = {"ResolveAsset"}
                          /\ log[Len(log)].level = "ERROR")
     /\ "Download" \notin Range(entered)
     /\ requests = << apiURL >>
     /\ tmpFile = pre.tmpFile
     /\ liveDB = pre.liveDB
     /\ nft = pre.nft

\* C8, witness: a release with assets, none of them an .mmdb file, has ended
\* the run, over a disk that had a temporary file.
C8_Witness ==
  /\ pc = "exited"
  /\ exitCode = 1
  /\ Len(release.Assets) = 2
  /\ \A i \in 1..Len(release.Assets) : ~EndsInMMDB(release.Assets[i].Name)
  /\ pre = DirtyDisk

\* C9: nothing written is cleaned up on failure: a failed reload leaves both
\* rule-set files with the content this run generated and the live database
\* the downloaded one; a failing stage leaves every file an earlier stage of
\* the run has written as that stage left it.
C9_NoCleanupOnFailure ==
  /\ RenameSucceeded => (liveDB = snap.liveDB /\ liveDB = remote.body)
  /\ snap.cn4.exists => nft[outCN4] = snap.cn4
  /\ snap.cn6.exists => nft[outCN6] = snap.cn6
  /\ (exitCode = 1 /\ "Reload" \in faulty) =>
       /\ snap.cn4.exists /\ snap.cn6.exists
       /\ nft[outCN4] = snap.cn4 /\ nft[outCN6] = snap.cn6
       /\ liveDB = remote.body
       /\ faults = 0 =>
            /\ nft[outCN4] = Text(SetFileText("cn4", "ipv4_addr", cnIPv4))
            /\ nft[outCN6] = Text(SetFileText("cn6", "ipv6_addr", cnIPv6))

\* C9, witness: the reload has failed after both files were regenerated.
C9_Witness ==
  /\ exitCode = 1
  /\ "Reload" \in faulty
  /\ pre = UsedDisk
  /\ cnIPv4 # <<>>
  /\ nft[outCN4] # pre.nft[outCN4]

\* C10: two runs of extraction and serialization over the same database
\* leave byte-identical rule-set files, whatever the files held before.
C10_SameDatabaseSameFiles ==
  \A i \in 1..Len(hist) : \A j \in 1..Len(hist) :
    hist[i].db = hist[j].db =>
      (hist[i].cn4 = hist[j].cn4 /\ hist[i].cn6 = hist[j].cn6)

\* C10, witness: two runs over the scenario database, the first over files
\* of an interrupted run, the second over the files the first wrote.
C10_Witness ==
  /\ Len(hist) = 2
  /\ hist[1].db = Mmdb(ScenarioDB)
  /\ hist[2].db = hist[1].db
  /\ hist[1].before = DirtyDisk.nft
  /\ hist[2].before # hist[1].before

\* C11: in no terminal state, successful or failed, does the program still
\* hold a resource it acquired during the run (a response body, the
\* temporary file, the database, a rule-set file): every exit path, the
\* early-fatal ones included, has released them.
C11_ResourcesReleasedAtExit ==
  pc = "exited" => held = {}

\* What the iteration yields for an entry: the text of its network, whether
\* the entry is one the lists take (decoded, code "CN", text re-parses), the
\* text it is listed under and the family it is listed in.
NetworkText(e) == IPNetString(NetworkOf(e))
Listed(e) == ~e.bad /\ e.iso = "CN" /\ ParseCIDR(NetworkText(e)).ok
ListedText(e) == IPNetString(ParseCIDR(NetworkText(e)).ipNet)
ListedFamily(e) == IF To4(ParseCIDR(NetworkText(e)).ipNet.IP) # nilBytes THEN 4 ELSE 6

\* The texts of the listed entries of family fam among the first n entries
\* of the database, in the order of the iteration.
RECURSIVE InIterationOrder(_, _, _)
InIterationOrder(d, fam, n) ==
  IF n = 0 THEN <<>>
  ELSE IF Listed(d[n]) /\ ListedFamily(d[n]) = fam
       THEN Append(InIterationOrder(d, fam, n - 1), ListedText(d[n]))
       ELSE InIterationOrder(d, fam, n - 1)

\* The loop over the database is running or has ended.
InOrAfterLoop == "Extract" \in Range(entered) /\ iter >= 1

\* C12: the elements of each list are in the order in which the iteration
\* emitted their entries (of two listed entries of a family the one iterated
\* first is first; nothing is re-sorted), and the element lines of each
\* written file are in that same order.
C12_IterationOrderKept ==
  /\ InOrAfterLoop =>
       /\ cnIPv4 = InIterationOrder(db, 4, iter - 1)
       /\ cnIPv6 = InIterationOrder(db, 6, iter - 1)
  /\ snap.cn4.exists =>
       snap.cn4.data
         = ExpectedText("cn4", "ipv4_addr", InIterationOrder(db, 4, Len(db)))
  /\ snap.cn6.exists =>
       snap.cn6.data
         = ExpectedText("cn6", "ipv6_addr", InIterationOrder(db, 6, Len(db)))

\* C12, witness: two listed entries of the IPv4 family, with different
\* texts, have been iterated and their file has been written.
C12_Witness ==
  /\ snap.cn4.exists
  /\ nft[outCN4] = snap.cn4
  /\ Len(db) = 2
  /\ Listed(db[1])
  /\ Listed(db[2])
  /\ cnIPv4 = << ListedText(db[1]), ListedText(db[2]) >>
  /\ cnIPv4[1] # cnIPv4[2]

\* The entry fails in the loop: its record does not decode, or it carries
\* "CN" and the text of its network does not re-parse.
EntryFails(e) ==
  \/ e.bad
  \/ (e.iso = "CN" /\ ~ParseCIDR(NetworkText(e)).ok)

\* C13: an entry that fails to decode or to re-parse never aborts the
\* extraction: the step over it leaves both lists as they were, logs
\* nothing, sets no exit status and goes on to the next entry; and the loop
\* ends only after the last entry, with every entry that does not fail and
\* is to be listed in its list.
C13_EntryFailureSkipped ==
  /\ [][ (AtEntry /\ EntryFails(db[iter])) =>
           /\ cnIPv4' = cnIPv4
           /\ cnIPv6' = cnIPv6
           /\ iter' = iter + 1
           /\ pc' = "loop"
           /\ exitCode' = exitCode
           /\ log' = log
           /\ faulty' = faulty ]_vars
  /\ [](pc = "call_ws4" =>
          /\ iter = Len(db) + 1
          /\ cnIPv4 = InIterationOrder(db, 4, Len(db))
          /\ cnIPv6 = InIterationOrder(db, 6, Len(db)))

\* C13, witness: a run has ended with status 0 over a database whose first
\* entry failed and whose second entry, after it, is in a list.
C13_Witness ==
  /\ pc = "exited"
  /\ exitCode = 0
  /\ Len(db) = 2
  /\ EntryFails(db[1])
  /\ Listed(db[2])
  /\ Len(cnIPv4) + Len(cnIPv6) = 1

\* The places in the asset list of the assets whose name ends in ".mmdb".
Matching(assets) == { i \in 1..Len(assets) : EndsInMMDB(assets[i].Name) }

\* C14: ResolveAsset selects the download URL of the first asset, in list
\* order, whose name has the extension .mmdb (of several that match, the
\* first), and the run fails in ResolveAsset only when no asset of the list
\* matches.
C14_FirstMatchingAssetOrFail ==
  "ResolveAsset" \in Range(entered) =>
    /\ Matching(release.Assets) # {} =>
         \E i \in Matching(release.Assets) :
           /\ \A j \in Matching(release.Assets) : i <= j
           /\ downloadURL = release.Assets[i].BrowserDownloadURL
    /\ "ResolveAsset" \in faulty => Matching(release.Assets) = {}

\* The places of the ERROR lines in the log.
ErrorLines == { i \in 1..Len(log) : log[i].level = "ERROR" }

\* C15: a run that has ended with a non-zero status has logged exactly one
\* ERROR line, as its last line and in a stage that was entered and failed;
\* a run that has not failed, one ended with status 0 included, has logged
\* none; and no step, so no INFO line and no stage action, follows an exit.
C15_FailureReportedOnce ==
  /\ [](exitCode = 1 =>
          /\ pc = "exited"
          /\ ErrorLines = {Len(log)}
          /\ log # <<>>
          /\ entered # <<>>
          /\ entered[Len(entered)] \in faulty)
  /\ [](exitCode # 1 => ErrorLines = {})
  /\ [](pc = "exited" => exitCode \in {0, 1})
  /\ [][pc # "exited"]_vars

\* C15, witness: the reload failed after every INFO line of a run but
\* "Done." had been logged.
C15_Witness ==
  /\ pc = "exited"
  /\ exitCode = 1
  /\ "Reload" \in Range(entered)
  /\ Len(log) >= 10
  /\ log[Len(log)].level = "ERROR"
  /\ log[Len(log) - 1] = Info("Reloading nftables...")

\* C16: the rule-set files are changed only by the Serialize stages, the
\* IPv4 file first and the IPv6 file second: until SerializeV4 is entered
\* (so in every run that fails at or before the database open) both files
\* keep their pre-run content, the IPv6 file keeps it until SerializeV6 is
\* entered, and it keeps it for good when creating the IPv4 file failed.
C16_SetFilesWrittenOnlyBySerialize ==
  /\ "SerializeV4" \notin Range(entered) => nft = pre.nft
  /\ "SerializeV6" \notin Range(entered) => nft[outCN6] = pre.nft[outCN6]
  /\ (exitCode = 1 /\ faulty \cap {"FetchMetadata", "ResolveAsset", "Download",
                                  "Replace", "Extract"} # {})
       => nft = pre.nft
  /\ (w.path = outCN4 /\ pc = "after_ws_create" /\ err # "") => nft = pre.nft
  /\ (exitCode = 1 /\ "SerializeV4" \in faulty /\ "SerializeV6" \notin Range(entered))
       => nft[outCN6] = pre.nft[outCN6]
  /\ "SerializeV6" \in Range(entered) => snap.cn4.exists

\* C16, witness: creating the IPv4 file has failed, in a run over files an
\* earlier run left, after the database was replaced and read.
C16_Witness ==
  /\ pc = "exited"
  /\ exitCode = 1
  /\ faulty = {"SerializeV4"}
  /\ faults = 0
  /\ pre = UsedDisk
  /\ liveDB # pre.liveDB
  /\ cnIPv4 # <<>>
  /\ nft = pre.nft

\* The number of places at which x occurs in the sequence s.
Occurrences(s, x) == Cardinality({ i \in 1..Len(s) : s[i] = x })

\* The number of element lines in the text of a rule-set file: the lines
\* that end in a comma.
ElementLinesIn(text) ==
  Cardinality({ i \in 1..(Len(text) - 1) : SubSeq(text, i, i + 1) = ",\n" })

\* The line that logs the number of ranges of a file.
CountLine(path, n, family) ==
  Info("- " \o path \o " (" \o ToString(n) \o " " \o family \o " ranges)")

\* C17: extraction neither drops nor duplicates: after the loop the two
\* lists together have as many elements as there are entries that decoded,
\* carry "CN" and re-parse, each such entry is once in the list of its
\* family and in no other place; and the counts logged are the numbers of
\* element lines written to the IPv4 and to the IPv6 file.
C17_NothingDroppedOrDuplicated ==
  /\ (InOrAfterLoop /\ iter > Len(db)) =>
       /\ Len(cnIPv4) + Len(cnIPv6)
            = Cardinality({ i \in 1..Len(db) : Listed(db[i]) })
       /\ \A i \in 1..Len(db) :
            Listed(db[i]) =>
              /\ Occurrences(cnIPv4 \o cnIPv6, ListedText(db[i]))
                   = Cardinality({ j \in 1..Len(db) :
                        Listed(db[j]) /\ ListedText(db[j]) = ListedText(db[i]) })
              /\ ListedFamily(db[i]) = 4 => ListedText(db[i]) \in Range(cnIPv4)
              /\ ListedFamily(db[i]) = 6 => ListedText(db[i]) \in Range(cnIPv6)
  /\ "Reload" \in Range(entered) =>
       /\ CountLine(outCN4, ElementLinesIn(nft[outCN4].data), "IPv4") \in Range(log)
       /\ CountLine(outCN6, ElementLinesIn(nft[outCN6].data), "IPv6") \in Range(log)

\* C18: every run, if each of its calls returns, ends: it reaches the exit,
\* there with status 0 after Done or with status 1 after a failure and with
\* no other status, and stays there.  No state short of the exit is one in
\* which the program can take no step: a run that stopped there for good
\* would be a fair run that never reaches the exit.
C18_EveryRunTerminates ==
  /\ <>(pc = "exited")
  /\ [](pc = "exited" =>
          /\ exitCode \in {0, 1}
          /\ exitCode = 0 <=> (entered # <<>> /\ entered[Len(entered)] = "Done")
          /\ exitCode = 1 <=> log[Len(log)].level = "ERROR")
  /\ [](pc # "exited" => exitCode = -1)
  /\ [][pc # "exited"]_vars

\* C18, witness: a run over the three entries of the scenario database has
\* ended with status 0.
C18_Witness ==
  /\ pc = "exited"
  /\ exitCode = 0
  /\ db = ScenarioDB
  /\ iter = Len(db) + 1
  /\ entered = Stages

====
